---- MODULE Spec2Model ----
(***************************************************************************)
(* Packed secret sharing (src/src/packed.rs): the configuration, share,    *)
(* reconstruct, the parameter generation behind new / new_with_min_size,   *)
(* and the number-theoretic routines of module numtheory they call.        *)
(***************************************************************************)
EXTENDS Integers, Sequences, FiniteSets, TLC

(***************************************************************************)
(* Bounds of the model.                                                    *)
(***************************************************************************)
\* secret values offered to share are drawn from 0..MaxSecret
MaxSecret == 1
\* primes are searched below PrimeSearchLimit (Primes::all() is unbounded)
PrimeSearchLimit == 80

(***************************************************************************)
(* Sequence helpers.                                                       *)
(***************************************************************************)
Range(f) == {f[i] : i \in DOMAIN f}

SeqOfLen(S, n) == [1..n -> S]

RECURSIVE SetToAscSeq(_)
SetToAscSeq(S) ==
    IF S = {} THEN <<>>
    ELSE LET m == CHOOSE x \in S : \A y \in S : x <= y
         IN <<m>> \o SetToAscSeq(S \ {m})

NoDuplicates(q) == \A i, j \in 1..Len(q) : i # j => q[i] # q[j]

(***************************************************************************)
(* numtheory: field arithmetic.                                            *)
(***************************************************************************)
\* the product modulo p, exact: the factors are reduced first and, for a
\* modulus whose square passes 2^31, b is taken seven bits at a time, so
\* no intermediate passes 2^31 (p < 2^23)
RECURSIVE mod_mul(_, _, _)
mod_mul(a, b, p) ==
    IF p < 46341 THEN ((a % p) * (b % p)) % p
    ELSE IF b % p = 0 THEN 0
    ELSE ((a % p) * ((b % p) % 128)
          + 128 * mod_mul(a, (b % p) \div 128, p)) % p

\* binary exponentiation
RECURSIVE mod_pow(_, _, _)
mod_pow(x, e, p) ==
    IF e = 0 THEN 1 % p
    ELSE IF e % 2 = 0 THEN mod_pow(mod_mul(x, x, p), e \div 2, p)
    ELSE mod_mul(x, mod_pow(x, e - 1, p), p)

\* extended Euclid: <<g, s, t>> with g = s*a + t*b
RECURSIVE gcd(_, _)
gcd(a, b) ==
    IF b = 0 THEN <<a, 1, 0>>
    ELSE LET n == a \div b
             c == a % b
             r == gcd(b, c)
         IN <<r[1], r[3], r[2] - r[3] * n>>

\* the inverse exists for every operand not congruent to zero
inverse_defined(k, p) == k % p # 0

\* extended Euclid; called on an operand with no inverse, the call fails
mod_inverse(k, p) == (gcd(p, k % p)[3]) % p

(***************************************************************************)
(* numtheory: radix-2 and radix-3 transforms.                              *)
(***************************************************************************)
\* the subsequence a[start], a[start + step], ... (1-based)
Stride(a, start, step) ==
    [i \in 1..((Len(a) - start) \div step + 1) |-> a[start + (i - 1) * step]]

\* A(x) = B(x^2) + x C(x^2): evaluation of a at the powers of omega
RECURSIVE fft2(_, _, _)
fft2(a_coef, omega, prime) ==
    IF Len(a_coef) = 1 THEN <<a_coef[1] % prime>>
    ELSE LET half    == Len(a_coef) \div 2
             omega2  == mod_mul(omega, omega, prime)
             b_point == fft2(Stride(a_coef, 1, 2), omega2, prime)
             c_point == fft2(Stride(a_coef, 2, 2), omega2, prime)
         IN [i \in 1..Len(a_coef) |->
               LET j == ((i - 1) % half) + 1
                   w == mod_pow(omega, i - 1, prime)
               IN (b_point[j] + mod_mul(w, c_point[j], prime)) % prime]

\* the inverse direction: the transform at the inverse root, scaled by 1/N
fft2_inverse(a_point, omega, prime) ==
    LET omega_inv == mod_inverse(omega, prime)
        len_inv   == mod_inverse(Len(a_point), prime)
        scaled    == fft2(a_point, omega_inv, prime)
    IN [i \in 1..Len(a_point) |-> mod_mul(scaled[i], len_inv, prime)]

\* A(x) = B(x^3) + x C(x^3) + x^2 D(x^3)
RECURSIVE fft3(_, _, _)
fft3(a_coef, omega, prime) ==
    IF Len(a_coef) = 1 THEN <<a_coef[1] % prime>>
    ELSE LET third   == Len(a_coef) \div 3
             omega3  == mod_pow(omega, 3, prime)
             b_point == fft3(Stride(a_coef, 1, 3), omega3, prime)
             c_point == fft3(Stride(a_coef, 2, 3), omega3, prime)
             d_point == fft3(Stride(a_coef, 3, 3), omega3, prime)
         IN [i \in 1..Len(a_coef) |->
               LET j  == ((i - 1) % third) + 1
                   w  == mod_pow(omega, i - 1, prime)
                   w2 == mod_mul(w, w, prime)
               IN (b_point[j] + mod_mul(w, c_point[j], prime)
                              + mod_mul(w2, d_point[j], prime)) % prime]

(***************************************************************************)
(* numtheory: Newton interpolation over arbitrary points.                  *)
(***************************************************************************)
\* level j of the divided-difference table, from level j - 1 (dd)
NextDifferences(points, dd, j, prime) ==
    [i \in 1..(Len(dd) - 1) |->
       mod_mul((dd[i + 1] - dd[i]) % prime,
               mod_inverse((points[i + j] - points[i]) % prime, prime),
               prime)]

\* the Newton coefficients: the first entry of every level of the table
RECURSIVE newton_coefficients(_, _, _, _)
newton_coefficients(points, dd, j, prime) ==
    IF Len(dd) = 0 THEN <<>>
    ELSE IF Len(dd) = 1 THEN <<dd[1]>>
    ELSE <<dd[1]>> \o
         newton_coefficients(points, NextDifferences(points, dd, j, prime),
                             j + 1, prime)

\* every difference of two points the table divides by has an inverse
differences_invertible(points, prime) ==
    \A i, j \in 1..Len(points) :
        i < j => inverse_defined(points[j] - points[i], prime)

\* the polynomial in Newton form, or a failure in the division
newton_interpolation_general(points, values, prime) ==
    IF differences_invertible(points, prime)
    THEN [ok |-> TRUE, points |-> points,
          coefficients |->
              newton_coefficients(points,
                                  [i \in 1..Len(values) |-> values[i] % prime],
                                  1, prime)]
    ELSE [ok |-> FALSE, points |-> points, coefficients |-> <<>>]

\* nested multiplication in the Newton basis
RECURSIVE newton_horner(_, _, _, _)
newton_horner(poly, i, point, prime) ==
    IF i > Len(poly.coefficients) THEN 0
    ELSE (poly.coefficients[i]
          + mod_mul((point - poly.points[i]) % prime,
                    newton_horner(poly, i + 1, point, prime), prime)) % prime

newton_evaluate(poly, point, prime) == newton_horner(poly, 1, point, prime)

(***************************************************************************)
(* PackedSecretSharing: the configuration and the static presets.          *)
(***************************************************************************)
PackedSecretSharing(t, n, k, p, ws, wh) ==
    [threshold |-> t, share_count |-> n, secret_count |-> k,
     prime |-> p, omega_secrets |-> ws, omega_shares |-> wh]

PSS_4_8_3 == PackedSecretSharing(4, 8, 3, 433, 354, 150)

\* variant: the root of PSS_4_8_3
PSS_4_26_3_root_of_4_8_3 == PackedSecretSharing(4, 26, 3, 433, 354, 150)

PSS_4_26_3 == PackedSecretSharing(4, 26, 3, 433, 354, 17)

PSS_155_728_100 == PackedSecretSharing(155, 728, 100, 746497, 95660, 610121)

PSS_155_19682_100 ==
    PackedSecretSharing(155, 19682, 100, 5038849, 4318906, 1814687)

Presets == {PSS_4_8_3, PSS_4_26_3, PSS_155_728_100, PSS_155_19682_100}

\* no configuration: before construction, or construction failed
NoPSS == PackedSecretSharing(0, 0, 0, 0, 0, 0)

reconstruct_limit(pss) == pss.secret_count + pss.threshold + 1

(***************************************************************************)
(* share and its helpers.  A call either returns a value or panics; calls  *)
(* lists the routines entered before that.                                 *)
(***************************************************************************)
Returned(v, cs) == [outcome |-> "ok", value |-> v, calls |-> cs, fault |-> ""]

Panicked(where, cs) ==
    [outcome |-> "panic", value |-> <<>>, calls |-> cs, fault |-> where]

\* rand's Range::new(low, high) samples the half-open interval [low, high)
Range_new(low, high) == low..(high - 1)

\* the values one draw of sample_polynomial can take
randomness_range(pss) == Range_new(0, pss.prime - 1)

\* the vectors sample_polynomial can draw
randomness_draws(pss) == SeqOfLen(randomness_range(pss), pss.threshold)

\* variant: the random values placed before the secrets
polynomial_values_swapped(secrets, randomness) ==
    <<0>> \o randomness \o secrets

\* variant: the draw is not used
polynomial_values_no_randomness(secrets, randomness) ==
    <<0>> \o secrets \o [i \in 1..Len(randomness) |-> 0]

\* the values recover_polynomial hands to the inverse transform
polynomial_values(secrets, randomness) == <<0>> \o secrets \o randomness

\* variant: the forward transform in place of the inverse one
recover_polynomial_forward(pss, secrets, randomness) ==
    fft2(polynomial_values(secrets, randomness), pss.omega_secrets, pss.prime)

recover_polynomial(pss, secrets, randomness) ==
    fft2_inverse(polynomial_values(secrets, randomness),
                 pss.omega_secrets, pss.prime)

\* variant: evaluation at the powers of the other root
evaluate_polynomial_secrets_root(pss, coefficients) ==
    fft3(coefficients, pss.omega_secrets, pss.prime)

evaluate_polynomial(pss, coefficients) ==
    fft3(coefficients, pss.omega_shares, pss.prime)

\* share, with the draw of sample_polynomial as a parameter
share(pss, secrets, randomness) ==
    IF Len(secrets) # pss.secret_count
    THEN Panicked("share: secrets.len", <<>>)
    ELSE IF Len(polynomial_values(secrets, randomness)) # reconstruct_limit(pss)
    THEN Panicked("recover_polynomial: values.len",
                  <<"sample_polynomial", "recover_polynomial">>)
    ELSE IF pss.share_count + 1 - reconstruct_limit(pss) < 0
    THEN Panicked("share: extend",
                  <<"sample_polynomial", "recover_polynomial", "fft2_inverse">>)
    ELSE LET poly   == recover_polynomial(pss, secrets, randomness)
             pad    == pss.share_count + 1 - reconstruct_limit(pss)
             padded == poly \o [i \in 1..pad |-> 0]
             points == evaluate_polynomial(pss, padded)
             shares == Tail(points)
         IN IF Len(padded) # pss.share_count + 1
            THEN Panicked("evaluate_polynomial: coefficients.len",
                          <<"sample_polynomial", "recover_polynomial",
                            "fft2_inverse", "evaluate_polynomial">>)
            ELSE IF Len(shares) # pss.share_count
            THEN Panicked("share: shares.len",
                          <<"sample_polynomial", "recover_polynomial",
                            "fft2_inverse", "evaluate_polynomial", "fft3">>)
            ELSE Returned(shares,
                          <<"sample_polynomial", "recover_polynomial",
                            "fft2_inverse", "evaluate_polynomial", "fft3">>)

(***************************************************************************)
(* reconstruct.                                                            *)
(***************************************************************************)
\* variant: the rank itself as the exponent
shares_points_no_offset(pss, indices) ==
    [i \in 1..Len(indices) |->
        mod_pow(pss.omega_shares, indices[i], pss.prime)]

shares_points(pss, indices) ==
    [i \in 1..Len(indices) |->
        mod_pow(pss.omega_shares, indices[i] + 1, pss.prime)]

\* variant: the ranks are checked for repetitions as well
lengths_match_and_distinct(indices, shares) ==
    Len(shares) = Len(indices) /\ NoDuplicates(indices)

\* the first assertion of reconstruct
lengths_match(indices, shares) == Len(shares) = Len(indices)

\* variant: the bound of the doc comment, "strictly more than threshold"
enough_shares_above_threshold(pss, indices, shares) ==
    Len(shares) > pss.threshold

\* the second assertion of reconstruct
enough_shares(pss, indices, shares) == Len(shares) >= reconstruct_limit(pss)

reconstruct(pss, indices, shares) ==
    IF ~lengths_match(indices, shares)
    THEN Panicked("reconstruct: shares.len == indices.len", <<>>)
    ELSE IF ~enough_shares(pss, indices, shares)
    THEN Panicked("reconstruct: shares.len >= reconstruct_limit", <<>>)
    ELSE LET points == shares_points(pss, indices)
             poly   == newton_interpolation_general(points, shares, pss.prime)
         IN IF ~poly.ok
            THEN Panicked("mod_inverse",
                          <<"mod_pow", "newton_interpolation_general">>)
            ELSE Returned(
                   [e \in 1..pss.secret_count |->
                      newton_evaluate(poly,
                                      mod_pow(pss.omega_secrets, e, pss.prime),
                                      pss.prime)],
                   <<"mod_pow", "newton_interpolation_general",
                     "newton_evaluate">>)

(***************************************************************************)
(* paramgen: the search for the field and the roots, and construction.     *)
(***************************************************************************)
\* primal::Primes::all() yields exactly the primes
IsPrime(p) == p >= 2 /\ \A d \in 2..(p - 1) : d * d > p \/ p % d # 0

check_prime_form(min_p, n, m, p) ==
    IF p < min_p THEN FALSE
    ELSE IF (p - 1) % n # 0 THEN FALSE
    ELSE IF (p - 1) % m # 0 THEN FALSE
    ELSE IF ((p - 1) \div (n * m)) % n = 0 THEN FALSE
    ELSE IF ((p - 1) \div (n * m)) % m = 0 THEN FALSE
    ELSE TRUE

\* (p as f64).sqrt().ceil()
ceil_sqrt(p) == CHOOSE b \in 0..p : b * b >= p /\ \A c \in 0..(b - 1) : c * c < p

\* the factors pushed by factor(p), as a set
factor(p) ==
    UNION {{f, p \div f} : f \in {d \in 2..ceil_sqrt(p) : p % d = 0}}

is_generator(g, p) ==
    \A f \in factor(p - 1) : mod_pow(g, (p - 1) \div f, p) # 1

\* the search of find_field ends below PrimeSearchLimit
field_found(min_p, n, m) ==
    {p \in 2..PrimeSearchLimit :
        IsPrime(p) /\ check_prime_form(min_p, n, m, p)} # {}

\* <<found, prime, generator>>: the first prime of the right form and its
\* first generator, when there is one
find_field(min_p, n, m) ==
    LET p == CHOOSE q \in 2..PrimeSearchLimit :
                 /\ IsPrime(q) /\ check_prime_form(min_p, n, m, q)
                 /\ \A r \in 2..(q - 1) :
                        ~(IsPrime(r) /\ check_prime_form(min_p, n, m, r))
        gs == {g \in 2..(p - 1) : is_generator(g, p)}
    IN IF gs = {} THEN <<FALSE, p, 0>>
       ELSE <<TRUE, p, CHOOSE g \in gs : \A h \in gs : g <= h>>

find_roots(n, m, p, g) ==
    <<mod_pow(g, (p - 1) \div n, p), mod_pow(g, (p - 1) \div m, p)>>

\* <<found, prime, omega_secrets, omega_shares>>
generate_parameters(min_size, n, m) ==
    LET field == find_field(min_size, n, m)
        roots == find_roots(n, m, field[2], field[3])
    IN <<field[1], field[2], roots[1], roots[2]>>

\* (x as f64).log(base).floor() for x >= 1: below 243 the quotient of the
\* two f64 logarithms floors to the integer logarithm
RECURSIVE floor_log(_, _)
floor_log(x, base) == IF x < base THEN 0 ELSE 1 + floor_log(x \div base, base)

RECURSIVE pow(_, _)
pow(base, e) == IF e = 0 THEN 1 ELSE base * pow(base, e - 1)

new_with_min_size(threshold, secret_count, share_count, min_size) ==
    LET n == threshold + secret_count + 1
        m == share_count + 1
        two_power   == floor_log(n, 2)
        three_power == floor_log(m, 3)
    IN IF ~(pow(2, two_power) = n)
       THEN Panicked("new_with_min_size: power of 2", <<>>)
       ELSE IF ~(pow(3, three_power) = m)
       THEN Panicked("new_with_min_size: power of 3", <<>>)
       ELSE IF ~(min_size >= share_count + secret_count + 1)
       THEN Panicked("new_with_min_size: min_size", <<>>)
       ELSE LET found == generate_parameters(min_size, n, m)
            IN IF ~found[1]
               THEN Panicked("generate_parameters: unwrap",
                             <<"generate_parameters">>)
               ELSE Returned(PackedSecretSharing(threshold, share_count,
                                                 secret_count, found[2],
                                                 found[3], found[4]),
                             <<"generate_parameters">>)

new(threshold, secret_count, share_count) ==
    new_with_min_size(threshold, secret_count, share_count,
                      share_count + secret_count + threshold + 1)

\* construction reaches the prime search and the search ends within the bound
search_bounded(threshold, secret_count, share_count, min_size) ==
    LET n == threshold + secret_count + 1
        m == share_count + 1
    IN IF /\ pow(2, floor_log(n, 2)) = n
          /\ pow(3, floor_log(m, 3)) = m
          /\ min_size >= share_count + secret_count + 1
       THEN field_found(min_size, n, m)
       ELSE TRUE

(***************************************************************************)
(* The state: one configuration, the share vector its caller holds, and    *)
(* the last call made.                                                     *)
(***************************************************************************)
VARIABLES
    pc,          \* "start", "constructed", "shared", "combined",
                 \* "reconstructed", "walking" or "panicked"
    pss,         \* the configuration, NoPSS before construction
    secrets,     \* the secret vector behind the held shares
    randomness,  \* the draw of the last share call
    shares,      \* the share vector held by the caller
    combined,    \* "none", or how the held shares were combined: "add", "mul"
    indices,     \* the ranks given to the last reconstruct call
    values,      \* the share values given to the last reconstruct call
    call,        \* the last call: its name and what it returned
    rank,          \* the rank whose evaluation point was computed last
    share_point,   \* that evaluation point
    secret_points  \* the evaluation points of the secrets and the randomness

vars == <<pc, pss, secrets, randomness, shares, combined, indices, values,
          call, rank, share_point, secret_points>>

Called(name, r) ==
    [op |-> name, outcome |-> r.outcome, value |-> r.value,
     calls |-> r.calls, fault |-> r.fault]

NoCall == Called("none", Returned(<<>>, <<>>))

Init ==
    /\ pc = "start"
    /\ pss = NoPSS
    /\ secrets = <<>>
    /\ randomness = <<>>
    /\ shares = <<>>
    /\ combined = "none"
    /\ indices = <<>>
    /\ values = <<>>
    /\ call = NoCall
    /\ rank = 0
    /\ share_point = 0
    /\ secret_points = {}

(***************************************************************************)
(* Construction.                                                           *)
(***************************************************************************)
Constructed(name, r) ==
    /\ call' = Called(name, r)
    /\ pss' = IF r.outcome = "ok" THEN r.value ELSE NoPSS
    /\ pc' = IF r.outcome = "ok" THEN "constructed" ELSE "panicked"
    /\ UNCHANGED <<secrets, randomness, shares, combined, indices, values,
                   rank, share_point, secret_points>>

New(threshold, secret_count, share_count) ==
    /\ pc = "start"
    /\ search_bounded(threshold, secret_count, share_count,
                      share_count + secret_count + threshold + 1)
    /\ \E r \in {new(threshold, secret_count, share_count)} :
         Constructed("new", r)

NewWithMinSize(threshold, secret_count, share_count, min_size) ==
    /\ pc = "start"
    /\ search_bounded(threshold, secret_count, share_count, min_size)
    /\ \E r \in {new_with_min_size(threshold, secret_count, share_count,
                                   min_size)} :
         Constructed("new_with_min_size", r)

(***************************************************************************)
(* share: the secrets are the caller's, the draw is sample_polynomial's.   *)
(***************************************************************************)
Share(secrets_in) ==
    /\ pc = "constructed"
    /\ \E draw \in randomness_draws(pss) :
         \E r \in {share(pss, secrets_in, draw)} :
            /\ call' = Called("share", r)
            /\ secrets' = secrets_in
            /\ randomness' =
                 IF "sample_polynomial" \in Range(r.calls) THEN draw ELSE <<>>
            /\ shares' = r.value
            /\ pc' = IF r.outcome = "ok" THEN "shared" ELSE "panicked"
    /\ UNCHANGED <<pss, combined, indices, values, rank, share_point,
                   secret_points>>

(***************************************************************************)
(* The holder of two share vectors combines them rank by rank.             *)
(***************************************************************************)
\* a <= b in the lexicographic order of two sequences of one length
RECURSIVE LexLeq(_, _)
LexLeq(a, b) ==
    IF a = <<>> THEN TRUE
    ELSE IF Head(a) # Head(b) THEN Head(a) < Head(b)
    ELSE LexLeq(Tail(a), Tail(b))

\* sum and product are symmetric in the two share vectors: the held vector
\* is taken to be the one of the two whose secrets and draw come first
Combine(how, secrets_in) ==
    /\ pc = "shared"
    /\ Len(secrets_in) = pss.secret_count
    /\ \E draw \in randomness_draws(pss) :
         /\ LexLeq(secrets \o randomness, secrets_in \o draw)
         /\ \E r \in {share(pss, secrets_in, draw)} :
            /\ r.outcome = "ok"
            /\ call' = Called(how, Returned(<<>>, <<"share">>))
            /\ shares' =
                 [i \in 1..Len(shares) |->
                    IF how = "add"
                    THEN (shares[i] + r.value[i]) % pss.prime
                    ELSE (shares[i] * r.value[i]) % pss.prime]
            /\ secrets' =
                 [i \in 1..Len(secrets) |->
                    IF how = "add"
                    THEN (secrets[i] + secrets_in[i]) % pss.prime
                    ELSE (secrets[i] * secrets_in[i]) % pss.prime]
    /\ randomness' = <<>>
    /\ combined' = how
    /\ pc' = "combined"
    /\ UNCHANGED <<pss, indices, values, rank, share_point, secret_points>>

AddShares(secrets_in) == Combine("add", secrets_in)

MulShares(secrets_in) == Combine("mul", secrets_in)

(***************************************************************************)
(* reconstruct.                                                            *)
(***************************************************************************)
Reconstruct(indices_in, values_in) ==
    /\ pc \in {"shared", "combined"}
    /\ \E r \in {reconstruct(pss, indices_in, values_in)} :
          /\ call' = Called("reconstruct", r)
          /\ pc' = IF r.outcome = "ok" THEN "reconstructed" ELSE "panicked"
    /\ indices' = indices_in
    /\ values' = values_in
    /\ UNCHANGED <<pss, secrets, randomness, shares, combined, rank,
                   share_point, secret_points>>

(***************************************************************************)
(* The inputs offered to the calls.                                        *)
(***************************************************************************)
\* <<threshold, secret_count, share_count>> given to new
NewInputs ==
    {<<0, 1, 2>>, <<0, 1, 8>>, <<1, 2, 8>>,     \* well-formed sizes
     <<1, 2, 2>>, <<0, 3, 2>>,                  \* fewer shares than the limit
     <<1, 1, 8>>, <<2, 2, 8>>,                  \* limit not a power of 2
     <<1, 2, 5>>, <<0, 1, 7>>}                  \* share_count + 1 not a power of 3

\* <<threshold, secret_count, share_count, min_size>> given to new_with_min_size
NewWithMinSizeInputs ==
    {<<0, 1, 2, 10>>, <<0, 1, 2, 3>>, <<1, 2, 8, 5>>, <<1, 1, 2, 10>>,
     <<0, 1, 4, 10>>}

\* secret vectors of the right length, one shorter and one longer
SecretInputs(c) ==
    UNION {SeqOfLen(0..MaxSecret, len) :
             len \in {c.secret_count - 1, c.secret_count, c.secret_count + 1}
                     \cap Nat}

Ranks(c) == 0..(c.share_count - 1)

Reverse(q) == [i \in 1..Len(q) |-> q[Len(q) + 1 - i]]

\* rank sequences: every non-empty set of ranks in ascending order, the sets
\* of exactly reconstruct_limit ranks in descending order as well, and
\* sequences of at least reconstruct_limit ranks that repeat their first rank
IndexInputs(c) ==
    LET sets == SUBSET Ranks(c) \ {{}}
    IN {SetToAscSeq(T) : T \in sets}
       \cup {Reverse(SetToAscSeq(T)) :
               T \in {U \in sets : Cardinality(U) = reconstruct_limit(c)}}
       \cup {SetToAscSeq(T) \o <<CHOOSE x \in T : \A y \in T : x <= y>> :
               T \in {U \in sets : Cardinality(U) >= reconstruct_limit(c) - 1}}

\* the held shares at the given ranks
SharesAt(held, idx) == [i \in 1..Len(idx) |-> held[idx[i] + 1]]

\* the values handed over with the ranks: the shares at those ranks, or
\* (for enough ascending ranks) one value too few
ValueInputs(c, held, idx) ==
    {SharesAt(held, idx)}
    \cup IF Len(idx) >= reconstruct_limit(c) /\ idx = SetToAscSeq(Range(idx))
         THEN {SubSeq(SharesAt(held, idx), 1, Len(idx) - 1)}
         ELSE {}

(***************************************************************************)
(* Construction, sharing and reconstruction from the shares of one call.   *)
(***************************************************************************)
Next ==
    \/ \E c \in NewInputs : New(c[1], c[2], c[3])
    \/ \E c \in NewWithMinSizeInputs : NewWithMinSize(c[1], c[2], c[3], c[4])
    \/ \E s \in SecretInputs(pss) : Share(s)
    \/ /\ pc = "shared"
       /\ \E idx \in IndexInputs(pss) :
            \E v \in ValueInputs(pss, shares, idx) : Reconstruct(idx, v)

Spec == Init /\ [][Next]_vars

(***************************************************************************)
(* Two sharings under one configuration, combined rank by rank, and        *)
(* reconstruction from the combined shares.                                *)
(***************************************************************************)
HomNewInputs == {<<0, 1, 2>>, <<0, 1, 8>>, <<1, 2, 8>>}

\* the number of shares the caller hands over after combining
SharesNeeded(c, how) ==
    IF how = "mul" THEN 2 * reconstruct_limit(c) - 1 ELSE reconstruct_limit(c)

\* after an addition every set of reconstruct_limit ranks; after a
\* multiplication every run of 2 * reconstruct_limit - 1 consecutive ranks
HomIndexInputs(c, how) ==
    IF how = "mul"
    THEN {[i \in 1..SharesNeeded(c, how) |-> first + i - 1] :
            first \in 0..(c.share_count - SharesNeeded(c, how))}
    ELSE {SetToAscSeq(T) :
            T \in {U \in SUBSET Ranks(c) :
                     Cardinality(U) = SharesNeeded(c, how)}}

NextHom ==
    \/ \E c \in HomNewInputs : New(c[1], c[2], c[3])
    \/ \E s \in SecretInputs(pss) : Share(s)
    \/ \E s \in SecretInputs(pss) : AddShares(s)
    \/ \E s \in SecretInputs(pss) : MulShares(s)
    \/ /\ pc = "combined"
       /\ \E idx \in HomIndexInputs(pss, combined) :
            Reconstruct(idx, SharesAt(shares, idx))

SpecHom == Init /\ [][NextHom]_vars

(***************************************************************************)
(* The evaluation points of a preset: those reconstruct computes for the   *)
(* ranks (omega_shares^(rank + 1)) and for the secrets (omega_secrets^e).  *)
(***************************************************************************)
UsePreset(preset) ==
    /\ pc = "start"
    /\ pss' = preset
    /\ pc' = "constructed"
    /\ UNCHANGED <<secrets, randomness, shares, combined, indices, values,
                   call, rank, share_point, secret_points>>

secrets_points(c) ==
    {mod_pow(c.omega_secrets, e, c.prime) : e \in 1..(reconstruct_limit(c) - 1)}

FirstPoint ==
    /\ pc = "constructed"
    /\ pc' = "walking"
    /\ rank' = 0
    /\ share_point' = shares_points(pss, <<0>>)[1]
    /\ secret_points' = secrets_points(pss)
    /\ UNCHANGED <<pss, secrets, randomness, shares, combined, indices, values,
                   call>>

NextPoint ==
    /\ pc = "walking"
    /\ rank + 1 < pss.share_count
    /\ rank' = rank + 1
    /\ share_point' = shares_points(pss, <<rank + 1>>)[1]
    /\ UNCHANGED <<pc, pss, secrets, randomness, shares, combined, indices,
                   values, call, secret_points>>

NextPresets ==
    \/ \E preset \in Presets : UsePreset(preset)
    \/ FirstPoint
    \/ NextPoint

SpecPresets == Init /\ [][NextPresets]_vars

(***************************************************************************)
(* Properties.                                                             *)
(***************************************************************************)
\* two vectors of one length, congruent entry by entry
Congruent(a, b, p) ==
    Len(a) = Len(b) /\ \A i \in 1..Len(a) : (a[i] - b[i]) % p = 0

\* the limit, written out
Limit(c) == c.threshold + c.secret_count + 1

\* the sizes of a well-formed configuration
WellSized(c) ==
    /\ \E a \in 0..Limit(c) : pow(2, a) = Limit(c)
    /\ \E b \in 0..(c.share_count + 1) : pow(3, b) = c.share_count + 1
    /\ c.share_count >= Limit(c)

\* the value of the polynomial of degree < Len(xs) through (xs[j], ys[j])
\* at x, by Lagrange's formula
RECURSIVE LagrangeTerm(_, _, _, _, _)
LagrangeTerm(xs, j, m, x, p) ==
    IF m > Len(xs) THEN 1
    ELSE IF m = j THEN LagrangeTerm(xs, j, m + 1, x, p)
    ELSE mod_mul(mod_mul((x - xs[m]) % p,
                         mod_pow((xs[j] - xs[m]) % p, p - 2, p), p),
                 LagrangeTerm(xs, j, m + 1, x, p), p)

RECURSIVE LagrangeSum(_, _, _, _, _)
LagrangeSum(xs, ys, j, x, p) ==
    IF j > Len(xs) THEN 0
    ELSE (mod_mul(ys[j] % p, LagrangeTerm(xs, j, 1, x, p), p)
          + LagrangeSum(xs, ys, j + 1, x, p)) % p

\* f of the claim: 0 at omega_secrets^0, the secrets at the next
\* secret_count powers, the random values at the threshold powers after them
SecretPolynomialAt(c, S, r, x) ==
    LET xs == [j \in 1..Limit(c) |-> mod_pow(c.omega_secrets, j - 1, c.prime)]
        ys == [j \in 1..Limit(c) |->
                 IF j = 1 THEN 0
                 ELSE IF j <= 1 + Len(S) THEN S[j - 1]
                 ELSE r[j - 1 - Len(S)]]
    IN LagrangeSum(xs, ys, 1, x, c.prime)

\* the evaluation share removes
DroppedEvaluation(c, S, r) ==
    Head(evaluate_polynomial(c,
           recover_polynomial(c, S, r)
           \o [i \in 1..(c.share_count + 1 - Limit(c)) |-> 0]))

\* the shares at the ranks T, as the draw ranges over D
View(c, S, D, T) ==
    {[i \in T |-> share(c, S, draw).value[i + 1]] : draw \in D}

\* C1: reconstruct, given distinct ranks, at least reconstruct_limit of them,
\* and the shares a share call returned at those ranks, returns the secrets
\* of that call modulo prime (whatever the draw and whichever the ranks).
C1_RoundTrip ==
    (/\ call.op = "reconstruct"
     /\ combined = "none"
     /\ NoDuplicates(indices)
     /\ Len(indices) >= Limit(pss)
     /\ values = SharesAt(shares, indices))
    => (call.outcome = "ok" /\ Congruent(call.value, secrets, pss.prime))

C1_Witness ==
    /\ call.op = "reconstruct"
    /\ call.outcome = "ok"
    /\ pss.threshold = 1
    /\ indices = <<7, 5, 4, 2>>
    /\ secrets = <<1, 0>>
    /\ randomness = <<35>>

C3_AdditiveHomomorphism ==
    (/\ call.op = "reconstruct"
     /\ combined = "add"
     /\ NoDuplicates(indices)
     /\ Len(indices) = Limit(pss)
     /\ values = SharesAt(shares, indices))
    => (call.outcome = "ok" /\ Congruent(call.value, secrets, pss.prime))

C3_Witness ==
    /\ call.op = "reconstruct"
    /\ call.outcome = "ok"
    /\ combined = "add"
    /\ pss.threshold = 1
    /\ secrets = <<2, 1>>
    /\ indices = <<1, 3, 4, 7>>

\* C4: with share_count >= 2 * reconstruct_limit - 1, the rank-by-rank
\* product of the shares of two secret vectors, given to reconstruct at
\* 2 * reconstruct_limit - 1 distinct ranks, yields the product of the two
\* secret vectors modulo prime.
C4_MultiplicativeHomomorphism ==
    (/\ call.op = "reconstruct"
     /\ combined = "mul"
     /\ pss.share_count >= 2 * Limit(pss) - 1
     /\ NoDuplicates(indices)
     /\ Len(indices) = 2 * Limit(pss) - 1
     /\ values = SharesAt(shares, indices))
    => (call.outcome = "ok" /\ Congruent(call.value, secrets, pss.prime))

C4_Witness ==
    /\ call.op = "reconstruct"
    /\ call.outcome = "ok"
    /\ combined = "mul"
    /\ pss.threshold = 1
    /\ secrets = <<1, 1>>
    /\ indices = <<1, 2, 3, 4, 5, 6, 7>>

C7_DuplicatesRejectedAtEntry ==
    (/\ call.op = "reconstruct"
     /\ Len(indices) = Len(values)
     /\ Len(indices) >= Limit(pss)
     /\ ~NoDuplicates(indices))
    => (call.outcome = "panic" /\ call.calls = <<>>)

\* C7, amended: reconstruct does not look for repeated ranks; given at least
\* reconstruct_limit ranks with a rank repeated and as many values, it passes
\* both entry assertions, computes the evaluation points and enters the
\* interpolation.
C7_DuplicatesReachInterpolation ==
    (/\ call.op = "reconstruct"
     /\ Len(indices) = Len(values)
     /\ Len(indices) >= Limit(pss)
     /\ ~NoDuplicates(indices))
    => (/\ Len(call.calls) >= 2
        /\ call.calls[1] = "mod_pow"
        /\ call.calls[2] = "newton_interpolation_general")

C7_Witness ==
    /\ call.op = "reconstruct"
    /\ pss.threshold = 1
    /\ indices = <<0, 1, 2, 3, 0>>
    /\ Len(values) = 5

\* C8, as claimed: new and new_with_min_size return a configuration only
\* when the limit is a power of 2, share_count + 1 a power of 3 and
\* share_count at least the limit; and share on a constructed configuration,
\* given secret_count secrets, does not panic.
C8_ConstructionValidates ==
    /\ (call.op \in {"new", "new_with_min_size"} /\ call.outcome = "ok")
       => WellSized(pss)
    /\ (call.op = "share" /\ Len(secrets) = pss.secret_count)
       => call.outcome = "ok"

\* C10, as claimed: every random value share places lies in [0, prime), and
\* every value of [0, prime) is one a draw can take.
C10_DrawsCoverField ==
    (call.op = "share" /\ call.outcome = "ok")
    => \A j \in 1..Len(randomness) :
         /\ randomness[j] \in 0..(pss.prime - 1)
         /\ \A v \in 0..(pss.prime - 1) : v \in randomness_range(pss)

====
